---- MODULE Spec2Model ----
(***************************************************************************)
(* vimwikigraph: link extraction, path resolution, remapping, graph        *)
(* building and dot export (vimwikigraph.go, main.go).                     *)
(*                                                                         *)
(* Go strings are modelled as sequences of one-character strings, so that  *)
(* strings.Index, strings.Trim, strings.Contains, filepath.Ext,            *)
(* filepath.Join and the regular expressions act on characters.            *)
(***************************************************************************)
EXTENDS Integers, Sequences, FiniteSets, Bags, TLC

VARIABLES root, graph, remap, cluster, ignorePath, ignored, fs, input, call,
          pc, stdout

wikiVars == <<root, graph, remap, cluster, ignorePath, ignored>>
mainVars == <<pc, stdout>>
vars == <<root, graph, remap, cluster, ignorePath, ignored, fs, input, call,
          pc, stdout>>

----------------------------------------------------------------------------
(* String literals used by the program and by the inputs.                  *)

CurDir == <<".">>
DotDot == <<".", ".">>
Slash == <<"/">>
MdExt == <<".", "m", "d">>
WikiExt == <<".", "w", "i", "k", "i">>
PngExt == <<".", "p", "n", "g">>
Diary == <<"d", "i", "a", "r", "y">>
DiaryWiki == Diary \o WikiExt
Methods == "methods"
GitDir == <<".", "g", "i", "t">>

----------------------------------------------------------------------------
(* package strings                                                          *)

\* strings.Index(s, c) for a one-character c: 0-based, -1 when absent.
Index(s, c) ==
    IF \E i \in 1..Len(s) : s[i] = c
    THEN (CHOOSE i \in 1..Len(s) : s[i] = c /\ \A j \in 1..(i - 1) : s[j] # c) - 1
    ELSE -1

\* s[from:] and s[:to] of Go, with 0-based bounds.
SliceFrom(s, from) == SubSeq(s, from + 1, Len(s))
SliceTo(s, to) == SubSeq(s, 1, to)

\* strings.Trim(s, cutset): drop leading and trailing characters of cutset.
RECURSIVE TrimLeft(_, _)
TrimLeft(s, cutset) ==
    IF s # <<>> /\ s[1] \in cutset THEN TrimLeft(Tail(s), cutset) ELSE s

RECURSIVE TrimRight(_, _)
TrimRight(s, cutset) ==
    IF s # <<>> /\ s[Len(s)] \in cutset
    THEN TrimRight(SubSeq(s, 1, Len(s) - 1), cutset)
    ELSE s

Trim(s, cutset) == TrimRight(TrimLeft(s, cutset), cutset)

\* strings.Contains(s, sub)
Contains(s, sub) ==
    \E i \in 0..(Len(s) - Len(sub)) : SubSeq(s, i + 1, i + Len(sub)) = sub

HasSuffix(s, suf) ==
    Len(s) >= Len(suf) /\ SubSeq(s, Len(s) - Len(suf) + 1, Len(s)) = suf

----------------------------------------------------------------------------
(* package path/filepath (unix separator)                                   *)

\* Position (1-based) of the last "/" of path, 0 when there is none.
LastSlash(path) ==
    IF \E i \in 1..Len(path) : path[i] = "/"
    THEN CHOOSE i \in 1..Len(path) :
            path[i] = "/" /\ \A j \in (i + 1)..Len(path) : path[j] # "/"
    ELSE 0

\* filepath.Ext: the suffix from the last "." of the last element, else "".
Ext(path) ==
    LET from == LastSlash(path) + 1
        dots == {i \in from..Len(path) : path[i] = "."}
    IN  IF dots = {} THEN <<>>
        ELSE SubSeq(path, CHOOSE i \in dots : \A j \in dots : j <= i, Len(path))

\* The "/"-separated elements of path, empty elements included.
RECURSIVE Elements(_)
Elements(path) ==
    LET i == Index(path, "/")
    IN  IF i = -1 THEN <<path>>
        ELSE <<SliceTo(path, i)>> \o Elements(SliceFrom(path, i + 1))

RECURSIVE JoinElements(_)
JoinElements(elems) ==
    IF elems = <<>> THEN <<>>
    ELSE IF Len(elems) = 1 THEN elems[1]
    ELSE elems[1] \o Slash \o JoinElements(Tail(elems))

\* The element stack of filepath.Clean: "" and "." are dropped, ".." pops
\* the preceding element unless that is itself "..", and is dropped at the
\* top of a rooted path.
RECURSIVE CleanElements(_, _, _)
CleanElements(elems, out, rooted) ==
    IF elems = <<>> THEN out
    ELSE LET e == elems[1]
             rest == Tail(elems)
         IN  IF e = <<>> \/ e = CurDir THEN CleanElements(rest, out, rooted)
             ELSE IF e = DotDot
             THEN IF out # <<>> /\ out[Len(out)] # DotDot
                  THEN CleanElements(rest, SubSeq(out, 1, Len(out) - 1), rooted)
                  ELSE IF rooted THEN CleanElements(rest, out, rooted)
                  ELSE CleanElements(rest, Append(out, e), rooted)
             ELSE CleanElements(rest, Append(out, e), rooted)

\* filepath.Clean
Clean(path) ==
    IF path = <<>> THEN CurDir
    ELSE LET rooted == path[1] = "/"
             body == JoinElements(CleanElements(Elements(path), <<>>, rooted))
         IN  IF rooted THEN Slash \o body
             ELSE IF body = <<>> THEN CurDir ELSE body

\* filepath.Join(a, b): empty leading elements are ignored, the rest is
\* joined with "/" and cleaned.
Join(a, b) ==
    IF a = <<>> /\ b = <<>> THEN <<>>
    ELSE IF a = <<>> THEN Clean(b)
    ELSE Clean(a \o Slash \o b)

\* filepath.Split: the directory (with its trailing "/") and the file.
SplitDir(path) == SubSeq(path, 1, LastSlash(path))

\* filepath.Dir
Dir(path) == Clean(SplitDir(path))

\* filepath.Base of a cleaned path: its last element (os.FileInfo.Name()).
Base(path) == SubSeq(path, LastSlash(path) + 1, Len(path))

\* filepath.Rel(root, path) for a path that filepath.Walk(root) hands out:
\* the path below the root.
Rel(base, path) ==
    IF path = base THEN CurDir
    ELSE IF base = CurDir THEN path
    ELSE SubSeq(path, Len(base) + 2, Len(path))

----------------------------------------------------------------------------
(* Link matching: the two regular expressions of vimwikigraph.go:16-17.     *)

Newline == "\n"

\* wikiref \[\[([^\[\]]*)\]\] tried at position i (1-based): the position of
\* the last character of the match, 0 when there is no match at i.
WikiMatchEnd(text, i) ==
    IF i + 1 <= Len(text) /\ text[i] = "[" /\ text[i + 1] = "["
    THEN LET brackets == {e \in (i + 2)..Len(text) : text[e] \in {"[", "]"}}
         IN  IF brackets = {} THEN 0
             ELSE LET e == CHOOSE e \in brackets : \A f \in brackets : e <= f
                  IN  IF text[e] = "]" /\ e + 1 <= Len(text) /\ text[e + 1] = "]"
                      THEN e + 1
                      ELSE 0
    ELSE 0

\* markdownref \[(.*)\]\((.*)\) tried at position i: both groups are greedy
\* and "." does not match a newline, so the first group runs to the last
\* "](" that is still followed by a ")" and the second to the last ")".
MarkdownMatchEnd(text, i) ==
    IF i <= Len(text) /\ text[i] = "["
    THEN LET sameLine(k) == \A n \in (i + 1)..k : text[n] # Newline
             closes(j) == {k \in (j + 2)..Len(text) : text[k] = ")" /\ sameLine(k)}
             mids == {j \in (i + 1)..(Len(text) - 2) :
                         text[j] = "]" /\ text[j + 1] = "(" /\ closes(j) # {}}
         IN  IF mids = {} THEN 0
             ELSE LET j == CHOOSE j \in mids : \A m \in mids : m <= j
                  IN  CHOOSE k \in closes(j) : \A m \in closes(j) : m <= k
    ELSE 0

\* regexp.FindAllString(text, -1): leftmost matches, none overlapping.
RECURSIVE FindAllWiki(_, _)
FindAllWiki(text, i) ==
    IF i > Len(text) THEN <<>>
    ELSE LET e == WikiMatchEnd(text, i)
         IN  IF e > 0 THEN <<SubSeq(text, i, e)>> \o FindAllWiki(text, e + 1)
             ELSE FindAllWiki(text, i + 1)

RECURSIVE FindAllMarkdown(_, _)
FindAllMarkdown(text, i) ==
    IF i > Len(text) THEN <<>>
    ELSE LET e == MarkdownMatchEnd(text, i)
         IN  IF e > 0 THEN <<SubSeq(text, i, e)>> \o FindAllMarkdown(text, e + 1)
             ELSE FindAllMarkdown(text, i + 1)

WikiLinks(text) == FindAllWiki(text, 1)

MarkdownLinks(text) == FindAllMarkdown(text, 1)

----------------------------------------------------------------------------
(* Link parsing.                                                            *)

ParseMarkdownLinks(link) ==
    LET idx == Index(link, "(")
        inner == Trim(SliceFrom(link, idx), {"(", ")"})
        ext == Ext(inner)
    IN  IF ext = MdExt \/ ext = WikiExt THEN inner
        ELSE IF ext = <<>> THEN inner \o MdExt
        ELSE <<>>

ParseWikiLinksAppend(link) ==
    LET inner == Trim(link, {"[", "]"})
        idx == Index(inner, "|")
        target == IF idx > 0 THEN SliceTo(inner, idx) ELSE inner
    IN  target \o WikiExt

ParseWikiLinks(link) ==
    LET inner == Trim(link, {"[", "]"})
        idx == Index(inner, "|")
        target == IF idx > 0 THEN SliceTo(inner, idx) ELSE inner
        ext == Ext(target)
    IN  IF ext # MdExt /\ ext # WikiExt THEN target \o WikiExt ELSE target

\* The loop of Links over the markdown matches: an element is overwritten
\* only when the parsed link is not empty.
ParsedMarkdown(matches) ==
    [i \in 1..Len(matches) |->
        LET link == ParseMarkdownLinks(matches[i])
        IN  IF link # <<>> THEN link ELSE matches[i]]

ParsedWiki(matches) ==
    [i \in 1..Len(matches) |-> ParseWikiLinks(matches[i])]

Links(text) ==
    ParsedWiki(WikiLinks(text)) \o ParsedMarkdown(MarkdownLinks(text))

----------------------------------------------------------------------------
(* The ignore pattern: regexp.Compile and Regexp.Match for the patterns of *)
(* ordinary characters, "." (any character) and a postfix "*".             *)

Nil == "nil"

\* The atoms of a pattern; ok is FALSE for a pattern regexp.Compile
\* rejects: a "*" with nothing to repeat ("missing argument to repetition
\* operator", "invalid nested repetition operator").
RECURSIVE ParseRegexp(_)
ParseRegexp(p) ==
    IF p = <<>> THEN [ok |-> TRUE, atoms |-> <<>>]
    ELSE IF p[1] = "*" THEN [ok |-> FALSE, atoms |-> <<>>]
    ELSE LET star == Len(p) >= 2 /\ p[2] = "*"
             atom == [ch |-> p[1], any |-> p[1] = ".", star |-> star]
             rest == ParseRegexp(SubSeq(p, IF star THEN 3 ELSE 2, Len(p)))
         IN  [ok |-> rest.ok, atoms |-> <<atom>> \o rest.atoms]

AtomMatches(atom, c) == (atom.any /\ c # Newline) \/ (~atom.any /\ atom.ch = c)

\* Whether atoms k.. match s from position i on.
RECURSIVE MatchHere(_, _, _, _)
MatchHere(atoms, k, s, i) ==
    IF k > Len(atoms) THEN TRUE
    ELSE IF atoms[k].star
    THEN \/ MatchHere(atoms, k + 1, s, i)
         \/ (i <= Len(s) /\ AtomMatches(atoms[k], s[i]) /\ MatchHere(atoms, k, s, i + 1))
    ELSE i <= Len(s) /\ AtomMatches(atoms[k], s[i]) /\ MatchHere(atoms, k + 1, s, i + 1)

\* Regexp.Match: the pattern is not anchored.
RegexpMatch(atoms, s) == \E i \in 1..(Len(s) + 1) : MatchHere(atoms, 1, s, i)

\* A *regexp.Regexp field of Wiki: nil, or a compiled pattern.
NilRegexp == [nil |-> TRUE, atoms |-> <<>>]

\* CompileExpressions: the two link expressions always compile; the ignore
\* pattern is compiled only when it is not empty.  [err, ignored]
CompileExpressions(pattern) ==
    IF pattern # <<>>
    THEN IF ~ParseRegexp(pattern).ok
         THEN [err |-> "regexp", ignored |-> NilRegexp]
         ELSE [err |-> Nil,
               ignored |-> [nil |-> FALSE, atoms |-> ParseRegexp(pattern).atoms]]
    ELSE [err |-> Nil, ignored |-> NilRegexp]

IgnorePathNoNilTest(path) == RegexpMatch(ignored.atoms, path)

IgnorePath(path) ==
    IF ignored.nil THEN FALSE ELSE RegexpMatch(ignored.atoms, path)

----------------------------------------------------------------------------
(* Graph builder.                                                           *)

\* All orders in which a Go map with key set S can be ranged over.
RECURSIVE Orders(_)
Orders(S) ==
    IF S = {} THEN {<<>>}
    ELSE UNION {{<<x>> \o o : o \in Orders(S \ {x})} : x \in S}

\* wiki.graph[key]: the nil slice for a key that is absent.
Outgoing(g, key) == IF key \in DOMAIN g THEN g[key] ELSE <<>>

uniqueAlways(s, vals) == TRUE

uniqueLast(s, vals) == vals = <<>> \/ vals[Len(vals)] # s

unique(s, vals) == \A i \in 1..Len(vals) : vals[i] # s

InsertOverwrite(g, key, value) ==
    [k \in DOMAIN g \cup {key} |-> IF k = key THEN <<value>> ELSE g[k]]

Insert(g, key, value) ==
    IF unique(value, Outgoing(g, key))
    THEN [k \in DOMAIN g \cup {key} |->
            IF k = key THEN Append(Outgoing(g, key), value) ELSE g[k]]
    ELSE g

RECURSIVE RemapLoopDirOnly(_, _, _, _)
RemapLoopDirOnly(order, dir, key, match) ==
    IF order = <<>> THEN [key |-> key, match |-> match]
    ELSE LET k == order[1]
             v == remap[k]
         IN  RemapLoopDirOnly(Tail(order), dir,
                              IF k = dir THEN v ELSE key,
                              IF k = dir THEN v ELSE match)

\* The loop of Remap over wiki.remap, ranged over in the given order.
RECURSIVE RemapLoop(_, _, _, _)
RemapLoop(order, dir, key, match) ==
    IF order = <<>> THEN [key |-> key, match |-> match]
    ELSE LET k == order[1]
             v == remap[k]
         IN  RemapLoop(Tail(order), dir,
                       IF k = dir THEN v ELSE key,
                       IF Contains(match, k) THEN v ELSE match)

\* Remap: the (key, match) pairs it can return, one per iteration order.
Remap(dir, key, match) ==
    {RemapLoop(order, dir, key, Join(dir, match)) : order \in Orders(DOMAIN remap)}

\* The body of the loops of Add over the links of a file: the graphs it can
\* end with.
RECURSIVE AddLinks(_, _, _, _)
AddLinks(links, dir, key, g) ==
    IF links = <<>> THEN {g}
    ELSE IF IgnorePath(links[1]) THEN AddLinks(Tail(links), dir, key, g)
    ELSE UNION {AddLinks(Tail(links), dir, r.key, Insert(g, r.key, r.match)) :
                    r \in Remap(dir, key, links[1])}

RECURSIVE AllLinks(_)
AllLinks(lines) ==
    IF lines = <<>> THEN <<>> ELSE Links(lines[1]) \o AllLinks(Tail(lines))

\* The file of the file system at path.
File(path) == CHOOSE f \in {fs[i] : i \in 1..Len(fs)} : f.path = path

AddWithoutNode(g, path) ==
    LET key == Rel(root, path)
        dir == Dir(key)
        f == File(path)
    IN  IF f.fail = "open" THEN {[graph |-> g, err |-> "open"]}
        ELSE IF f.fail = "read"
        THEN UNION {{[graph |-> g2, err |-> "read"] :
                        g2 \in AddLinks(AllLinks(SubSeq(f.lines, 1, n)), dir, key, g)} :
                    n \in 0..Len(f.lines)}
        ELSE {[graph |-> g2, err |-> Nil] :
                g2 \in AddLinks(AllLinks(f.lines), dir, key, g)}

\* Add: the (graph, err) results it can end with.
Add(g, path) ==
    LET key == Rel(root, path)
        dir == Dir(key)
        g1 == IF key \in DOMAIN g THEN g
              ELSE [k \in DOMAIN g \cup {key} |-> IF k = key THEN <<>> ELSE g[k]]
        f == File(path)
    IN  IF f.fail = "open" THEN {[graph |-> g1, err |-> "open"]}
        ELSE IF f.fail = "read"
        THEN \* the scanner fails after any number of lines
             UNION {{[graph |-> g2, err |-> "read"] :
                        g2 \in AddLinks(AllLinks(SubSeq(f.lines, 1, n)), dir, key, g1)} :
                    n \in 0..Len(f.lines)}
        ELSE {[graph |-> g2, err |-> Nil] :
                g2 \in AddLinks(AllLinks(f.lines), dir, key, g1)}

\* info.Name() of the directories filepath.Walk enters on its way to path.
DirNames(path) ==
    {Base(root)} \cup
    {e \in {Elements(Dir(Rel(root, path)))[i] :
                i \in 1..Len(Elements(Dir(Rel(root, path))))} : e # CurDir}

\* filepath.Walk from the i-th file of the file system on, with the
\* callback of Walk: the (graph, err) results it can end with.
RECURSIVE WalkFrom(_, _, _)
WalkFrom(i, g, subDirToSkip) ==
    IF i > Len(fs) THEN {[graph |-> g, err |-> Nil]}
    ELSE LET f == fs[i]
         IN  IF \E n \in 1..Len(subDirToSkip) : subDirToSkip[n] \in DirNames(f.path)
             THEN WalkFrom(i + 1, g, subDirToSkip)
             ELSE IF f.fail = "stat" THEN {[graph |-> g, err |-> "stat"]}
             ELSE IF IgnorePath(f.path) THEN WalkFrom(i + 1, g, subDirToSkip)
             ELSE UNION {IF r.err # Nil THEN {r}
                         ELSE WalkFrom(i + 1, r.graph, subDirToSkip) :
                            r \in Add(g, f.path)}

Walk(g, subDirToSkip) == WalkFrom(1, g, subDirToSkip)

----------------------------------------------------------------------------
(* Graph exporter.  The dot graph is its nodes (each in the root graph,    *)
(* written <<>>, or in the subgraph of a directory), its subgraphs and its *)
(* edges, a bag of (from, to) pairs of node identifiers.                   *)

RootGraph == <<>>

NewGraph == [nodes |-> {}, subgraphs |-> {}, edges |-> EmptyBag]

\* Graph.Subgraph(id): created once, fetched afterwards.
Subgraph(dg, id) == [dg EXCEPT !.subgraphs = @ \cup {id}]

\* Graph.Node(id) on the graph `scope`: the node of that identifier in the
\* scope or in its parent, created in the scope when there is none.
Node(dg, scope, id) ==
    IF \E n \in dg.nodes : n.id = id /\ n.graph \in {scope, RootGraph}
    THEN dg
    ELSE [dg EXCEPT !.nodes = @ \cup {[id |-> id, graph |-> scope]}]

\* Graph.FindEdges(a, b): the number of edges from a to b.
FindEdges(dg, a, b) == CopiesIn(<<a, b>>, dg.edges)

\* Graph.Edge(a, b)
Edge(dg, a, b) == [dg EXCEPT !.edges = @ (+) SetToBag({<<a, b>>})]

PlaceNodeInRoot(dg, id) == Node(dg, RootGraph, id)

\* The placement of a node by Dot: in the subgraph of its directory when
\* clustering, in the root graph otherwise.
PlaceNode(dg, id) ==
    LET dir == SplitDir(id)
    IN  IF cluster /\ dir # <<>>
        THEN Node(Subgraph(dg, dir), dir, id)
        ELSE Node(dg, RootGraph, id)

RECURSIVE DotTargetsNoFindEdges(_, _, _)
DotTargetsNoFindEdges(dg, k, val) ==
    IF val = <<>> THEN dg
    ELSE DotTargetsNoFindEdges(Edge(PlaceNode(dg, val[1]), k, val[1]), k, Tail(val))

\* The inner loop of Dot over the targets of k.
RECURSIVE DotTargets(_, _, _)
DotTargets(dg, k, val) ==
    IF val = <<>> THEN dg
    ELSE LET placed == PlaceNode(dg, val[1])
         IN  DotTargets(IF FindEdges(placed, k, val[1]) = 0
                        THEN Edge(placed, k, val[1])
                        ELSE placed,
                        k, Tail(val))

SkipSourceAtLevel(val, level) == Len(val) <= level

\* Whether Dot skips the source with these targets.
SkipSource(val, level) == Len(val) < level

\* An enumeration of the set S.
RECURSIVE SetToSeq(_)
SetToSeq(S) ==
    IF S = {} THEN <<>>
    ELSE LET x == CHOOSE x \in S : TRUE IN <<x>> \o SetToSeq(S \ {x})

Reverse(seq) == [i \in 1..Len(seq) |-> seq[Len(seq) + 1 - i]]

Rotations(seq) ==
    {SubSeq(seq, i, Len(seq)) \o SubSeq(seq, 1, i - 1) : i \in 1..Len(seq)} \cup {seq}

\* Orders in which Dot ranges over the keys of the graph: the rotations of
\* an enumeration and of its reverse (every order for up to three keys).
KeyOrders(g) ==
    Rotations(SetToSeq(DOMAIN g)) \cup Rotations(Reverse(SetToSeq(DOMAIN g)))

\* The outer loop of Dot over the keys of the graph, ranged over in the
\* given order.  The pass for one key is evaluated before the loop goes
\* on: a dot graph without nodes is still the new graph.
RECURSIVE DotKeys(_, _, _, _)
DotKeys(dg, g, order, level) ==
    IF order = <<>> THEN dg
    ELSE LET k == order[1]
             next == IF SkipSource(g[k], level) THEN dg
                     ELSE DotTargets(PlaceNode(dg, k), k, g[k])
         IN  IF next.nodes = {} THEN DotKeys(NewGraph, g, Tail(order), level)
             ELSE DotKeys(next, g, Tail(order), level)

Dot(g, level, order) == DotKeys(NewGraph, g, order, level)

----------------------------------------------------------------------------
(* The wiki directory and the inputs of the operations.                     *)

Root == <<"w">>

\* The files filepath.Walk finds under the root, in lexical order.  A file
\* can fail at lstat ("stat"), at os.Open ("open") or while it is scanned
\* ("read").
DiaryFile == [path |-> <<"w", "/", "d", "i", "a", "r", "y", "/", "a", ".", "w", "i", "k", "i">>, lines |-> <<<<"[", "[", "b", "]", "]">>>>, fail |-> "none"]
SubDiaryFile ==
    [path |-> <<"w", "/", "d", "i", "a", "r", "y", "/", "s", "/", "c", ".", "w", "i", "k", "i">>, lines |-> <<<<"[", "[", ".", ".", "/", ".", ".", "/", "i", "]", "]", " ", "[", "[", "e", "|", "t", "]", "]">>>>,
     fail |-> "none"]
IndexFile ==
    [path |-> <<"w", "/", "i", ".", "w", "i", "k", "i">>,
     lines |-> <<<<"[", "[", "d", "i", "a", "r", "y", "/", "a", "]", "]">>, <<"!", "[", "f", "]", "(", "p", ".", "p", "n", "g", ")">>, <<"[", "t", "]", "(", "n", ")">>>>,
     fail |-> "none"]

\* A document without links.
EmptyFile == [path |-> <<"w", "/", "e", ".", "w", "i", "k", "i">>, lines |-> <<<<"t">>>>, fail |-> "none"]

Files == <<DiaryFile, SubDiaryFile, EmptyFile, IndexFile>>

Failures == {"stat", "open", "read"}

FileSystems ==
    {Files} \cup {[Files EXCEPT ![Len(Files)].fail = kind] : kind \in Failures}

\* main.go:90-93: the remap table is empty or holds the diary pair.
DiaryRemap == [k \in {Diary} |-> DiaryWiki]
NoRemap == [k \in {} |-> <<>>]
RemapTables == {NoRemap, DiaryRemap}

\* Ignore patterns: none, and one that matches a target only once it is
\* joined with the directory of its document.
IgnorePatterns == {<<>>, <<"s", "/", "e">>}

\* main.go:102-105: ".git" and the trailing arguments.
SkipLists == {<<GitDir>>, <<GitDir, <<"s">>>>}

InsertKeys == {<<"i", ".", "w", "i", "k", "i">>}
InsertValues == {<<"n", ".", "m", "d">>, <<"N", ".", "m", "d">>}

MaxLevel == 3

----------------------------------------------------------------------------
(* The wiki as a state machine: the state after newWiki, and one action    *)
(* per method.  call is the last call, with its arguments and its result.  *)

NoInput == [kind |-> "none"]

Init ==
    /\ root = Root
    /\ graph = [k \in {} |-> <<>>]
    /\ remap \in RemapTables
    /\ cluster \in BOOLEAN
    /\ ignorePath \in IgnorePatterns
    /\ ignored = CompileExpressions(ignorePath).ignored
    /\ fs \in FileSystems
    /\ input = NoInput
    /\ call = [op |-> "newWiki"]
    /\ pc = Methods
    /\ stdout = <<>>

CallInsert ==
    \E key \in InsertKeys, value \in InsertValues :
        /\ graph' = Insert(graph, key, value)
        /\ call' = [op |-> "Insert", key |-> key, value |-> value]
        /\ UNCHANGED <<root, remap, cluster, ignorePath, ignored, fs, input, mainVars>>

CallAdd ==
    \E i \in 1..Len(fs) :
        \E r \in Add(graph, fs[i].path) :
            /\ graph' = r.graph
            /\ call' = [op |-> "Add", path |-> fs[i].path, err |-> r.err]
            /\ UNCHANGED <<root, remap, cluster, ignorePath, ignored, fs, input, mainVars>>

CallWalk ==
    \E subDirToSkip \in SkipLists :
        \E r \in Walk(graph, subDirToSkip) :
            /\ graph' = r.graph
            /\ call' = [op |-> "Walk", subDirToSkip |-> subDirToSkip, err |-> r.err]
            /\ UNCHANGED <<root, remap, cluster, ignorePath, ignored, fs, input, mainVars>>

DotLevels(levels) ==
    \E level \in levels :
        \E order \in KeyOrders(graph) :
            /\ call' = [op |-> "Dot", level |-> level,
                        ret |-> Dot(graph, level, order)]
            /\ UNCHANGED <<root, graph, remap, cluster, ignorePath, ignored, fs, input, mainVars>>

CallDot == DotLevels(0..MaxLevel)

Next == CallInsert \/ CallAdd \/ CallWalk \/ CallDot

Spec == Init /\ [][Next]_vars

----------------------------------------------------------------------------
(* The exporter on given graphs: the graph of TestNodeConnectionLevel      *)
(* (source i has the targets "000", "100", ... below i) for every number   *)
(* of sources up to ten, and the graphs Walk builds from the files.        *)

Sources == 10

Digit(i) == <<"0", "1", "2", "3", "4", "5", "6", "7", "8", "9">>[i + 1]

TestGraph(n) ==
    [k \in {<<Digit(i)>> : i \in 0..(n - 1)} |->
        LET i == CHOOSE i \in 0..(n - 1) : k = <<Digit(i)>>
        IN  [j \in 1..i |-> <<Digit(j - 1), "0", "0">>]]

\* A hand-built adjacency mapping: a repeated target, a link of a document
\* to itself, and a link from one directory to another.
RepeatedGraph ==
    [k \in {<<"a", ".", "w", "i", "k", "i">>, <<"d", "/", "b", ".", "w", "i", "k", "i">>} |->
        IF k = <<"a", ".", "w", "i", "k", "i">>
        THEN <<<<"d", "/", "b", ".", "w", "i", "k", "i">>, <<"d", "/", "b", ".", "w", "i", "k", "i">>, <<"a", ".", "w", "i", "k", "i">>>>
        ELSE <<<<"e", "/", "c", ".", "w", "i", "k", "i">>>>]

InitDot ==
    /\ root = Root
    /\ remap \in RemapTables
    /\ cluster \in BOOLEAN
    /\ ignorePath = <<>>
    /\ ignored = CompileExpressions(ignorePath).ignored
    /\ fs = Files
    /\ graph \in {TestGraph(n) : n \in 0..Sources} \cup {RepeatedGraph} \cup
                 {r.graph : r \in WalkFrom(1, [k \in {} |-> <<>>], <<GitDir>>)}
    /\ input = NoInput
    /\ call = [op |-> "newWiki"]
    /\ pc = Methods
    /\ stdout = <<>>

TestDot == DotLevels(0..Sources)

SpecDot == InitDot /\ [][TestDot]_vars

----------------------------------------------------------------------------
(* The link parser on given texts.                                          *)

MaxStem == 2
MaxDesc == 1
MaxLinks == 2

StemChars == {"a", "/", "."}
DescChars == {"t", "(", "|"}

\* The sequences over chars of length at most n.
RECURSIVE Strings(_, _)
Strings(chars, n) ==
    IF n = 0 THEN {<<>>}
    ELSE Strings(chars, n - 1) \cup
         {Append(w, c) : w \in Strings(chars, n - 1), c \in chars}

Exts == {<<>>, MdExt, WikiExt, PngExt}
Targets == {stem \o ext : stem \in Strings(StemChars, MaxStem), ext \in Exts}
Descs == Strings(DescChars, MaxDesc)

WikiLink(x) == <<"[", "[">> \o x \o <<"]", "]">>
WikiLinkDesc(x, desc) == <<"[", "[">> \o x \o <<"|">> \o desc \o <<"]", "]">>
MarkdownLink(desc, x) == <<"[">> \o desc \o <<"]", "(">> \o x \o <<")">>

\* Lines of several links, separated by " and ".
LineLinks ==
    {[syntax |-> "wiki", text |-> WikiLink(<<"a">>)],
     [syntax |-> "wiki", text |-> WikiLinkDesc(<<"b">>, <<"t">>)],
     [syntax |-> "markdown", text |-> MarkdownLink(<<"a">>, <<"b">>)],
     [syntax |-> "markdown", text |-> MarkdownLink(<<"c">>, <<"d">>)]}

RECURSIVE LinkSeqs(_)
LinkSeqs(n) ==
    IF n = 0 THEN {<<>>}
    ELSE LinkSeqs(n - 1) \cup {Append(w, l) : w \in LinkSeqs(n - 1), l \in LineLinks}

RECURSIVE LineOf(_)
LineOf(links) ==
    IF links = <<>> THEN <<>>
    ELSE IF Len(links) = 1 THEN links[1].text
    ELSE links[1].text \o <<" ", "a", "n", "d", " ">> \o LineOf(Tail(links))

LinkInputs ==
    {[kind |-> "link", text |-> WikiLink(x)] : x \in Targets} \cup
    {[kind |-> "link", text |-> WikiLinkDesc(x, d)] : x \in Targets, d \in Descs} \cup
    {[kind |-> "link", text |-> MarkdownLink(d, x)] : x \in Targets, d \in Descs} \cup
    {[kind |-> "line", text |-> LineOf(links), links |-> links] :
        links \in LinkSeqs(MaxLinks)}

InitLinks ==
    /\ root = Root
    /\ graph = [k \in {} |-> <<>>]
    /\ remap = NoRemap
    /\ cluster = FALSE
    /\ ignorePath = <<>>
    /\ ignored = CompileExpressions(ignorePath).ignored
    /\ fs = <<>>
    /\ input \in LinkInputs
    /\ call = [op |-> "newWiki"]
    /\ pc = Methods
    /\ stdout = <<>>

CallWikiLinks ==
    /\ call' = [op |-> "WikiLinks", text |-> input.text, ret |-> WikiLinks(input.text)]
    /\ UNCHANGED <<wikiVars, fs, input, mainVars>>

CallMarkdownLinks ==
    /\ call' = [op |-> "MarkdownLinks", text |-> input.text,
                ret |-> MarkdownLinks(input.text)]
    /\ UNCHANGED <<wikiVars, fs, input, mainVars>>

\* As Links and the tests do, the parsers are applied to the matches.
CallParseWikiLinks ==
    \E i \in 1..Len(WikiLinks(input.text)) :
        /\ call' = [op |-> "ParseWikiLinks", link |-> WikiLinks(input.text)[i],
                    ret |-> ParseWikiLinks(WikiLinks(input.text)[i])]
        /\ UNCHANGED <<wikiVars, fs, input, mainVars>>

CallParseMarkdownLinks ==
    \E i \in 1..Len(MarkdownLinks(input.text)) :
        /\ call' = [op |-> "ParseMarkdownLinks", link |-> MarkdownLinks(input.text)[i],
                    ret |-> ParseMarkdownLinks(MarkdownLinks(input.text)[i])]
        /\ UNCHANGED <<wikiVars, fs, input, mainVars>>

CallLinks ==
    /\ call' = [op |-> "Links", text |-> input.text, ret |-> Links(input.text)]
    /\ UNCHANGED <<wikiVars, fs, input, mainVars>>

NextLinks ==
    \/ CallWikiLinks
    \/ CallMarkdownLinks
    \/ CallParseWikiLinks
    \/ CallParseMarkdownLinks
    \/ CallLinks

SpecLinks == InitLinks /\ [][NextLinks]_vars

----------------------------------------------------------------------------
(* Remap on given arguments (TestMappingCollapse, TestMappingNoCollapse).   *)

TestRemap == [k \in {Diary} |-> Diary]
TwoRemaps == [k \in {Diary, <<"s">>} |-> IF k = Diary THEN DiaryWiki ELSE <<"s", ".", "w", "i", "k", "i">>]

\* Two pairs where the value of one contains the key of the other.
ChainedRemaps == [k \in {<<"s">>, Diary} |-> IF k = Diary THEN <<"d", ".", "w", "i", "k", "i">> ELSE DiaryWiki]

RemapDirs == {CurDir, Diary, DiaryWiki, <<"s">>}
RemapKeys == {CurDir, <<"i", ".", "w", "i", "k", "i">>}
RemapLinks == {ParseWikiLinks(WikiLink(x)) : x \in {<<"d", "i", "a", "r", "y", "/", "l", "i", "n", "k">>, <<".", ".", "/", "l", "i", "n", "k">>, <<"l", "i", "n", "k">>}}

InitRemap ==
    /\ root = Root
    /\ graph = [k \in {} |-> <<>>]
    /\ remap \in {NoRemap, TestRemap, DiaryRemap, TwoRemaps, ChainedRemaps}
    /\ cluster = FALSE
    /\ ignorePath = <<>>
    /\ ignored = CompileExpressions(ignorePath).ignored
    /\ fs = <<>>
    /\ input \in {[kind |-> "remap", dir |-> d, key |-> k, match |-> m] :
                    d \in RemapDirs, k \in RemapKeys, m \in RemapLinks}
    /\ call = [op |-> "newWiki"]
    /\ pc = Methods
    /\ stdout = <<>>

CallRemap ==
    \E r \in Remap(input.dir, input.key, input.match) :
        /\ call' = [op |-> "Remap", ret |-> r]
        /\ UNCHANGED <<wikiVars, fs, input, mainVars>>

SpecRemap == InitRemap /\ [][CallRemap]_vars

----------------------------------------------------------------------------
(* IgnorePath on given patterns and paths (TestIgnorePaths).  The wiki is   *)
(* the one newWiki returns, also when it returns an error with it.          *)

MaxPath == 3

PathChars == {"t", "e", "s", "/"}

TestPattern == <<"t", "*">>
TestPath == <<"t", "e", "s", "t">>
LiteralPatterns == {<<"e">>, <<"s", "/", "e">>}
AnyAfterPattern == <<"t", ".">>
MalformedPattern == <<"*", "t">>

IgnoreTestPatterns ==
    {<<>>, TestPattern, AnyAfterPattern, MalformedPattern} \cup LiteralPatterns

IgnoreTestPaths == Strings(PathChars, MaxPath) \cup {TestPath}

InitIgnore ==
    /\ root = Root
    /\ graph = [k \in {} |-> <<>>]
    /\ remap = NoRemap
    /\ cluster = FALSE
    /\ ignorePath \in IgnoreTestPatterns
    /\ ignored = CompileExpressions(ignorePath).ignored
    /\ fs = <<>>
    /\ input \in {[kind |-> "path", path |-> p] : p \in IgnoreTestPaths}
    /\ call = [op |-> "newWiki", err |-> CompileExpressions(ignorePath).err]
    /\ pc = Methods
    /\ stdout = <<>>

CallIgnorePath ==
    /\ call' = [op |-> "IgnorePath", path |-> input.path, ret |-> IgnorePath(input.path)]
    /\ UNCHANGED <<wikiVars, fs, input, mainVars>>

SpecIgnore == InitIgnore /\ [][CallIgnorePath]_vars

----------------------------------------------------------------------------
(* main: the flags and the trailing arguments are the input; pc is the      *)
(* statement main is at, stdout what it has written to standard output.    *)

MainIgnorePatterns == IgnorePatterns \cup {MalformedPattern}
MainArgs == {<<>>, <<<<"s">>>>}

MainInputs ==
    {[kind |-> "main", diary |-> d, cluster |-> c, level |-> l,
      ignoreRegex |-> p, args |-> a] :
        d \in BOOLEAN, c \in BOOLEAN, l \in 0..MaxLevel,
        p \in MainIgnorePatterns, a \in MainArgs}

\* The process before main has built anything.
InitMain ==
    /\ root = <<>>
    /\ graph = [k \in {} |-> <<>>]
    /\ remap = NoRemap
    /\ cluster = FALSE
    /\ ignorePath = <<>>
    /\ ignored = NilRegexp
    /\ fs \in FileSystems
    /\ input \in MainInputs
    /\ call = [op |-> "main"]
    /\ pc = "flags"
    /\ stdout = <<>>

\* main.go:83-93: flag.Parse and the remap table.
MainFlags ==
    /\ pc = "flags"
    /\ remap' = IF ~input.diary THEN DiaryRemap ELSE NoRemap
    /\ call' = [op |-> "flag.Parse"]
    /\ pc' = "newWiki"
    /\ UNCHANGED <<root, graph, cluster, ignorePath, ignored, fs, input, stdout>>

\* log.Fatalf ends the process.
AfterErrLogOnly(err, next) == next

\* Where main goes after a call that returned err.
AfterErr(err, next) == IF err # Nil THEN "fatal" ELSE next

\* main.go:96-99: newWiki, fatal when it returns an error.
MainNewWiki ==
    /\ pc = "newWiki"
    /\ root' = Root
    /\ graph' = [k \in {} |-> <<>>]
    /\ cluster' = input.cluster
    /\ ignorePath' = input.ignoreRegex
    /\ ignored' = CompileExpressions(input.ignoreRegex).ignored
    /\ call' = [op |-> "newWiki", err |-> CompileExpressions(input.ignoreRegex).err]
    /\ pc' = AfterErr(CompileExpressions(input.ignoreRegex).err, "Walk")
    /\ UNCHANGED <<remap, fs, input, stdout>>

\* main.go:102-110: the directories to skip and Walk, fatal on an error.
MainWalk ==
    /\ pc = "Walk"
    /\ LET subDirToSkip == <<GitDir>> \o input.args
       IN  \E r \in Walk(graph, subDirToSkip) :
                /\ graph' = r.graph
                /\ call' = [op |-> "Walk", subDirToSkip |-> subDirToSkip, err |-> r.err]
                /\ pc' = AfterErr(r.err, "Dot")
    /\ UNCHANGED <<root, remap, cluster, ignorePath, ignored, fs, input, stdout>>

\* main.go:113: Dot at the level of the -l flag.
MainDot ==
    /\ pc = "Dot"
    /\ \E order \in KeyOrders(graph) :
            call' = [op |-> "Dot", level |-> input.level,
                     ret |-> Dot(graph, input.level, order)]
    /\ pc' = "Write"
    /\ UNCHANGED <<wikiVars, fs, input, stdout>>

\* main.go:114-115: the dot graph is written to standard output.
MainWrite ==
    /\ pc = "Write"
    /\ stdout' = Append(stdout, call.ret)
    /\ call' = [op |-> "Write"]
    /\ pc' = "done"
    /\ UNCHANGED <<wikiVars, fs, input>>

NextMain == MainFlags \/ MainNewWiki \/ MainWalk \/ MainDot \/ MainWrite

SpecMain == InitMain /\ [][NextMain]_vars

----------------------------------------------------------------------------
(* Properties.                                                              *)

\* The node identifiers of the graph: its keys and their targets.
NodeIds(g) == DOMAIN g \cup UNION {{g[k][i] : i \in 1..Len(g[k])} : k \in DOMAIN g}

\* Whether the last element of x has no ".".
NoExtension(x) == \A i \in (LastSlash(x) + 1)..Len(x) : x[i] # "."

\* Whether d is one of the directories of the path id.
HasDir(id, d) ==
    \E i \in 1..(Len(Elements(id)) - 1) : Elements(id)[i] = d

\* The markdown matches of the files whose target ParseMarkdownLinks
\* discards.
DiscardedMatches ==
    UNION {UNION {{MarkdownLinks(fs[f].lines[l])[m] :
                        m \in {n \in 1..Len(MarkdownLinks(fs[f].lines[l])) :
                                ParseMarkdownLinks(MarkdownLinks(fs[f].lines[l])[n]) = <<>>}} :
                    l \in 1..Len(fs[f].lines)} :
            f \in 1..Len(fs)}

\* C1: a markdown link whose target has an extension other than .md or
\* .wiki leaves nothing in the graph: after Add, no outgoing list holds an
\* empty identifier or the text of such a match.
C1_DiscardedLinkNotInserted ==
    (call.op = "Add" /\ call.err = Nil) =>
        \A k \in DOMAIN graph :
            \A i \in 1..Len(graph[k]) :
                graph[k][i] # <<>> /\ \A m \in DiscardedMatches : ~Contains(graph[k][i], m)

\* C2: with an ignore pattern, no key and no target of the graph matches
\* the pattern.
C2_NoIgnoredNode ==
    ~ignored.nil => \A id \in NodeIds(graph) : ~IgnorePath(id)

\* C3: with the diary pair, after Walk the only node identifier with the
\* directory diary is diary.wiki: no key or target lies under diary.
C3_DiaryCollapsed ==
    (remap = DiaryRemap /\ call.op = "Walk" /\ call.err = Nil) =>
        \A id \in NodeIds(graph) : HasDir(id, Diary) => id = DiaryWiki

C5_InsertIdempotent ==
    [][(/\ call.op = "Insert"
        /\ call'.op = "Insert"
        /\ call'.key = call.key
        /\ call'.value = call.value) => graph' = graph]_vars

\* A repeated Insert has acted: the value of the last Insert is in the list
\* of its key, before other targets, and the graph has other keys.
C5_Witness ==
    /\ call.op = "Insert"
    /\ Len(graph[call.key]) >= 2
    /\ graph[call.key][1] = call.value
    /\ DOMAIN graph # {call.key}

\* C6: with one remap pair (p -> r), Remap returns r as the target when the
\* join of dir and target contains p and the join itself when it does not;
\* the cases of TestMappingCollapse and TestMappingNoCollapse.
C6_RemapSinglePair ==
    call.op = "Remap" =>
        LET joined == Join(input.dir, input.match)
            link(x) == ParseWikiLinks(WikiLink(x))
        IN  /\ Cardinality(DOMAIN remap) = 1 =>
                    LET p == CHOOSE p \in DOMAIN remap : TRUE
                    IN  call.ret.match = IF Contains(joined, p) THEN remap[p] ELSE joined
            /\ (remap = TestRemap /\ input.dir = CurDir /\ input.match = link(<<"d", "i", "a", "r", "y", "/", "l", "i", "n", "k">>))
                    => call.ret.match = Diary
            /\ (remap = TestRemap /\ input.dir = Diary /\ input.match = link(<<"l", "i", "n", "k">>))
                    => call.ret.match = Diary
            /\ (remap = TestRemap /\ input.dir = Diary /\ input.match = link(<<".", ".", "/", "l", "i", "n", "k">>))
                    => call.ret.match = <<"l", "i", "n", "k", ".", "w", "i", "k", "i">>
            /\ (remap = NoRemap /\ input.dir = Diary /\ input.match = link(<<"l", "i", "n", "k">>))
                    => call.ret.match = <<"d", "i", "a", "r", "y", "/", "l", "i", "n", "k", ".", "w", "i", "k", "i">>

C6_Witness ==
    /\ call.op = "Remap"
    /\ remap = TestRemap
    /\ input.dir = CurDir
    /\ input.match = <<"d", "i", "a", "r", "y", "/", "l", "i", "n", "k", ".", "w", "i", "k", "i">>
    /\ call.ret.match = Diary

\* C7: for a match [[x]], ParseWikiLinks returns x.wiki when x has no
\* extension (.wiki for the empty x) and x itself when x ends in .wiki or
\* .md.
C7_ParseWikiLinks ==
    call.op = "ParseWikiLinks" =>
        \A x \in Targets :
            call.link = WikiLink(x) =>
                /\ NoExtension(x) => call.ret = x \o WikiExt
                /\ (HasSuffix(x, WikiExt) \/ HasSuffix(x, MdExt)) => call.ret = x

C7_Witness ==
    /\ call.op = "ParseWikiLinks"
    /\ call.link = WikiLink(<<>>)
    /\ call.ret = WikiExt

\* C8: for a match [[x|desc]], the empty x included, ParseWikiLinks returns
\* what it returns for [[x]].
C8_DescriptionIgnored ==
    call.op = "ParseWikiLinks" =>
        \A x \in Targets, desc \in Descs :
            call.link = WikiLinkDesc(x, desc) => call.ret = ParseWikiLinks(WikiLink(x))

\* C9: for a match [d](x), ParseMarkdownLinks returns x.md when x has no
\* extension, x when x ends in .md or .wiki and the empty string otherwise,
\* whatever d is.
C9_ParseMarkdownLinks ==
    call.op = "ParseMarkdownLinks" =>
        \A x \in Targets, desc \in Descs :
            call.link = MarkdownLink(desc, x) =>
                call.ret = IF NoExtension(x) THEN x \o MdExt
                           ELSE IF HasSuffix(x, MdExt) \/ HasSuffix(x, WikiExt) THEN x
                           ELSE <<>>

\* The texts of the links of the given syntax on a line, in order.
LinkTexts(links, syntax) ==
    LET chosen == SelectSeq(links, LAMBDA l : l.syntax = syntax)
    IN  [i \in 1..Len(chosen) |-> chosen[i].text]

\* C10: on a line of n links, WikiLinks returns the wiki links and
\* MarkdownLinks the markdown links, one element per link, in order.
C10_EveryLinkMatched ==
    input.kind = "line" =>
        /\ call.op = "WikiLinks" => call.ret = LinkTexts(input.links, "wiki")
        /\ call.op = "MarkdownLinks" => call.ret = LinkTexts(input.links, "markdown")

\* What the test patterns match, stated on the paths: t* matches every
\* path (no t at all is a match), t. a t followed by a character, a
\* pattern of ordinary characters the paths that contain it, and a pattern
\* that does not compile no path.
PatternMatches(pattern, path) ==
    IF pattern = TestPattern THEN TRUE
    ELSE IF pattern = AnyAfterPattern
    THEN \E i \in 1..(Len(path) - 1) : path[i] = "t"
    ELSE IF pattern \in LiteralPatterns THEN Contains(path, pattern)
    ELSE FALSE

\* C11: IgnorePath returns false for every path when the ignore pattern is
\* empty, and otherwise true exactly for the paths the pattern matches;
\* the pattern t* ignores test.
C11_IgnorePath ==
    call.op = "IgnorePath" =>
        /\ ignorePath = <<>> => call.ret = FALSE
        /\ ignorePath # <<>> => call.ret = PatternMatches(ignorePath, call.path)
        /\ (ignorePath = TestPattern /\ call.path = TestPath) => call.ret = TRUE

C11_Witness ==
    /\ call.op = "IgnorePath"
    /\ ignorePath = <<"s", "/", "e">>
    /\ call.path = <<"s", "/", "e">>
    /\ call.ret = TRUE

\* C12: the diary pair (diary -> diary.wiki) is in the remap table of the
\* run when the -diary flag is set and is not when the flag is absent.
C12_DiaryFlagCollapses ==
    (input.kind = "main" /\ pc # "flags") =>
        (input.diary <=> (Diary \in DOMAIN remap /\ remap[Diary] = DiaryWiki))

\* newWiki or Walk has returned an error to main.
FatalError == call.op \in {"newWiki", "Walk"} /\ call.err # Nil

\* C13: when newWiki fails on a malformed ignore pattern the process ends
\* before Walk is started, and when Walk returns an error it ends without
\* Dot being called; in both cases nothing has been written to standard
\* output, and the ended process takes no further step.
C13_NoPartialOutput ==
    /\ [](input.kind = "main" =>
            /\ FatalError => pc = "fatal"
            /\ pc = "fatal" => (FatalError /\ stdout = <<>>)
            /\ (call.op = "newWiki" /\ call.err # Nil) => graph = [k \in {} |-> <<>>])
    /\ [][pc # "fatal"]_vars

\* Walk failed while it read the last file, after it had built a part of
\* the graph.
C13_Witness ==
    /\ pc = "fatal"
    /\ call.op = "Walk"
    /\ call.err = "read"
    /\ DOMAIN graph # {}
    /\ stdout = <<>>

\* The position of the identifier id in the list vals, 0 when absent.
Position(vals, id) ==
    IF \E i \in 1..Len(vals) : vals[i] = id
    THEN CHOOSE i \in 1..Len(vals) : vals[i] = id
    ELSE 0

\* C14: no outgoing list holds an identifier twice, and every step keeps
\* the targets of a list in the order they had and puts the targets it
\* adds after them: a list is in the order of the first insertions.
C14_NoDuplicatesInOrder ==
    /\ [](\A k \in DOMAIN graph :
            \A i, j \in 1..Len(graph[k]) : graph[k][i] = graph[k][j] => i = j)
    /\ [][\A k \in DOMAIN graph :
            /\ k \in DOMAIN graph'
            /\ \A i \in 1..Len(graph[k]) : Position(graph'[k], graph[k][i]) = i
            /\ \A j \in 1..Len(graph'[k]) :
                    Position(graph[k], graph'[k][j]) = 0 => j > Len(graph[k])]_vars

\* Add has met a target that Insert had put in the list before: it is
\* still the first of the list and the new targets follow it.
C14_Witness ==
    /\ call.op = "Add"
    /\ call.path = IndexFile.path
    /\ call.err = Nil
    /\ InsertKeys \subseteq DOMAIN graph
    /\ \A k \in InsertKeys :
            /\ Len(graph[k]) >= 3
            /\ graph[k][1] = <<"n", ".", "m", "d">>
            /\ graph[k][2] = <<"N", ".", "m", "d">>

\* C15: with several remap pairs, the target Remap returns is the join of
\* dir and target when no key of the table is a substring of the join, and
\* otherwise the value of a pair whose key is a substring of the join, in
\* every order of the pairs.
C15_RemapOnJoinedTarget ==
    call.op = "Remap" =>
        LET joined == Join(input.dir, input.match)
            matching == {p \in DOMAIN remap : Contains(joined, p)}
        IN  IF matching = {} THEN call.ret.match = joined
            ELSE call.ret.match \in {remap[p] : p \in matching}

\* The edges Dot is to render at the level of the last call.
RenderedEdges ==
    UNION {{<<k, graph[k][i]>> : i \in 1..Len(graph[k])} :
            k \in {k \in DOMAIN graph : Len(graph[k]) >= call.level}}

\* C16: with clustering, Dot places every node it renders, source or
\* target, in the subgraph of the directory of its identifier and a node
\* without directory in the root graph; there is one subgraph per
\* directory, every node is in one graph only, and the edges between
\* directories are rendered.  Without clustering there is no subgraph.
C16_Clustering ==
    call.op = "Dot" =>
        /\ \A n, m \in call.ret.nodes : n.id = m.id => n = m
        /\ RenderedEdges \subseteq BagToSet(call.ret.edges)
        /\ cluster =>
            /\ \A n \in call.ret.nodes : n.graph = SplitDir(n.id)
            /\ call.ret.subgraphs = {SplitDir(n.id) : n \in call.ret.nodes} \ {<<>>}
        /\ ~cluster =>
            /\ call.ret.subgraphs = {}
            /\ \A n \in call.ret.nodes : n.graph = RootGraph

\* Dot has clustered the nodes of two directories and rendered an edge
\* from one directory to another.
C16_Witness ==
    /\ call.op = "Dot"
    /\ cluster
    /\ Cardinality(call.ret.subgraphs) >= 2
    /\ \E e \in BagToSet(call.ret.edges) :
            /\ SplitDir(e[1]) # <<>>
            /\ SplitDir(e[2]) # <<>>
            /\ SplitDir(e[1]) # SplitDir(e[2])

\* C17: the dot graph holds at most one edge for every ordered pair of
\* nodes, also when a list of the adjacency mapping repeats a target.
C17_UniqueEdges ==
    call.op = "Dot" =>
        \A e \in BagToSet(call.ret.edges) : CopiesIn(e, call.ret.edges) = 1

\* Dot has rendered the mapping with a repeated target.
C17_Witness ==
    /\ call.op = "Dot"
    /\ graph = RepeatedGraph
    /\ \E k \in DOMAIN graph :
            /\ graph[k][1] = graph[k][2]
            /\ CopiesIn(<<k, graph[k][1]>>, call.ret.edges) = 1

\* Whether the list a is the beginning of the list b.
IsPrefix(a, b) == Len(a) <= Len(b) /\ SubSeq(b, 1, Len(a)) = a

\* C18: after an Add without error, the identifier of the document
\* relative to the root is a key of the graph, with an empty list when it
\* was no key before and the document has no links; the list of a key
\* that was there before is not reset or shortened.
C18_AddEnsuresNode ==
    [][(call'.op = "Add" /\ call'.err = Nil) =>
            LET key == Rel(root, call'.path)
            IN  /\ key \in DOMAIN graph'
                /\ key \in DOMAIN graph => IsPrefix(graph[key], graph'[key])
                /\ (key \notin DOMAIN graph /\ AllLinks(File(call'.path).lines) = <<>>)
                        => graph'[key] = <<>>]_vars

\* Add has scanned the document without links.
C18_Witness ==
    /\ call.op = "Add"
    /\ call.err = Nil
    /\ call.path = EmptyFile.path
    /\ AllLinks(EmptyFile.lines) = <<>>
    /\ graph[Rel(root, EmptyFile.path)] = <<>>

\* C19: the graph only grows: every step of Insert, Add, Walk and Dot
\* keeps every key and keeps the list of every key as the beginning of its
\* new list, and Dot leaves the graph as it is.
C19_GraphOnlyGrows ==
    [][/\ \A k \in DOMAIN graph :
            k \in DOMAIN graph' /\ IsPrefix(graph[k], graph'[k])
       /\ call'.op = "Dot" => graph' = graph]_vars

\* Dot has rendered a graph that Insert and Walk have built.
C19_Witness ==
    /\ call.op = "Dot"
    /\ call.level = 0
    /\ call.ret.nodes # {}
    /\ Cardinality(DOMAIN graph) >= 4
    /\ \E k \in InsertKeys :
            k \in DOMAIN graph /\ Len(graph[k]) >= 3 /\ graph[k][1] \in InsertValues

====
